---- MODULE Spec2Model ----
(***************************************************************************)
(* A model of the Backlink Metrics Tool (src/app.py): the key normalizers,  *)
(* the header aliaser, and the three report pipelines (domain, page,       *)
(* combined) that the script runs on every interaction.                    *)
(*                                                                         *)
(* Strings are sequences of tokens.  A token is a piece of text that the   *)
(* regular expressions and str methods of the code treat as a unit: " "    *)
(* (one whitespace character), "http://", "www.", "/", "a.com", ...  No    *)
(* pattern of the code matches across two tokens of the alphabet used, so  *)
(* the token-level operators below compute what the character-level code   *)
(* computes on the concatenation of the tokens.                            *)
(*                                                                         *)
(* A cell of a table is a record with one field, which tells its type:     *)
(* [str |-> s] a string, [num |-> n] a number, [nan |-> k] a missing       *)
(* value (NaN, pd.NA, None), [frac |-> <<n, d>>] the float n/d.            *)
(***************************************************************************)
EXTENDS Integers, Sequences, FiniteSets, TLC

VARIABLES
    mode,       \* the radio selection (src/app.py:165)
    uploads,    \* the four file_uploader slots (src/app.py:170-192)
    run,        \* the script's locals and what it displayed, after the last run
    nraw,       \* key normalizer: the parts of the raw string under test
    nkey,       \* key normalizer: normalize_domain_like of that string
    adf,        \* header aliaser: the table (header only) under test
    ares        \* header aliaser: what the last map_alias call returned

vars == <<mode, uploads, run, nraw, nkey, adf, ares>>

(***************************************************************************)
(* Bounds of the model.                                                    *)
(***************************************************************************)
MaxPad == 1         \* whitespace characters on each side of a raw key
MaxSlash == 2       \* trailing '/' characters of a raw key
MaxCols == 3        \* columns of a header given to map_alias alone
MaxRows == 2        \* rows of one uploaded table
MaxExtra == 1       \* what the uploaded tables hold beyond one row each under
                    \* the standard header: further rows, other headers

(***************************************************************************)
(* Cells.                                                                  *)
(***************************************************************************)
Str(s) == [str |-> s]
Num(n) == [num |-> n]
NaN == [nan |-> "NaN"]          \* float('nan'): an empty CSV cell, a failed coercion
NA == [nan |-> "NA"]            \* pd.NA
None == [nan |-> "None"]        \* Python None
Frac(n, d) == [frac |-> <<n, d>>]
Inf == [frac |-> <<1, 0>>]      \* float('inf')

IsStr(c) == DOMAIN c = {"str"}
IsNum(c) == DOMAIN c = {"num"}
IsMissing(c) == DOMAIN c = {"nan"}
IsFrac(c) == DOMAIN c = {"frac"}

\* One-token string: a name, a word.
T(x) == <<x>>
WS == " "

(***************************************************************************)
(* str.lower(), token by token.                                            *)
(***************************************************************************)
LowerTok(t) ==
    CASE t = "HTTP://" -> "http://"
      [] t = "HTTPS://" -> "https://"
      [] t = "WWW." -> "www."
      [] t = "A.COM" -> "a.com"
      [] t = "B.COM" -> "b.com"
      [] OTHER -> t

Lower(s) == [i \in 1..Len(s) |-> LowerTok(s[i])]

\* The number of leading tokens of s equal to t.
Leading(s, t) ==
    CHOOSE n \in 0..Len(s) :
        /\ \A j \in 1..n : s[j] = t
        /\ (n = Len(s) \/ s[n + 1] # t)

\* The number of trailing tokens of s equal to t.
Trailing(s, t) ==
    CHOOSE n \in 0..Len(s) :
        /\ \A j \in (Len(s) - n + 1)..Len(s) : s[j] = t
        /\ (n = Len(s) \/ s[Len(s) - n] # t)

\* .str.replace(r"^\s*https?://", "", regex=True): the match is case-sensitive.
StripScheme(s) ==
    LET n == Leading(s, WS)
    IN  IF n < Len(s) /\ s[n + 1] \in {"http://", "https://"}
        THEN SubSeq(s, n + 2, Len(s))
        ELSE s

\* .str.replace(r"^www\.", "", regex=True): the match is case-sensitive.
StripWww(s) ==
    IF Len(s) > 0 /\ s[1] = "www." THEN SubSeq(s, 2, Len(s)) ELSE s

\* .str.strip("/"): '/' characters are removed from both ends.
StripSlashes(s) ==
    IF Leading(s, "/") = Len(s)
    THEN <<>>
    ELSE SubSeq(s, Leading(s, "/") + 1, Len(s) - Trailing(s, "/"))

\* Series.astype(str), for one cell: a missing value becomes its repr.
AsType_str(c) ==
    IF IsStr(c) THEN c.str
    ELSE IF c = NaN THEN T("nan")
    ELSE IF c = NA THEN T("<NA>")
    ELSE T("None")

\* normalize_domain_like for one cell of the Series.
domain_key(c) == Str(Lower(StripSlashes(StripWww(StripScheme(AsType_str(c))))))

\* normalize_page_url for one cell of the Series.
page_key(c) == Str(Lower(StripSlashes(StripScheme(AsType_str(c)))))

normalize_domain_like(s) == [i \in 1..Len(s) |-> domain_key(s[i])]

normalize_page_url(s) == [i \in 1..Len(s) |-> page_key(s[i])]

(***************************************************************************)
(* extract_root_domain: tldextract splits the host of the URL (the text up *)
(* to the first '/') into subdomain, domain and public suffix; the         *)
(* registrable domains of the alphabet are the tokens below.               *)
(***************************************************************************)
Registrable == {"a.com", "b.com", "A.COM", "B.COM"}

HostOf(s) ==
    LET cut == {i \in 1..Len(s) : s[i] = "/"}
    IN  IF cut = {} THEN s
        ELSE SubSeq(s, 1, (CHOOSE i \in cut : \A j \in cut : i <= j) - 1)

extract_root_domain(c) ==
    IF ~IsStr(c) \/ c.str = <<>> \/ \A i \in 1..Len(c.str) : c.str[i] = WS
    THEN None
    ELSE LET h == HostOf(StripScheme(c.str))
             reg == {i \in 1..Len(h) : h[i] \in Registrable}
         IN  IF reg = {} THEN None
             ELSE Str(T(h[CHOOSE i \in reg : \A j \in reg : i <= j]))

(***************************************************************************)
(* Tables.  A DataFrame is its column labels and its rows; a row holds one  *)
(* cell per column.  Labels need not be distinct.                          *)
(***************************************************************************)
Range(s) == {s[i] : i \in 1..Len(s)}

\* str.strip() of a header: whitespace is removed from both ends.
Strip(name) ==
    IF Leading(name, WS) = Len(name)
    THEN <<>>
    ELSE SubSeq(name, Leading(name, WS) + 1, Len(name) - Trailing(name, WS))

\* df.columns = df.columns.str.strip()
StripCols(df) == [df EXCEPT !.cols = [i \in 1..Len(df.cols) |-> Strip(df.cols[i])]]

\* df.rename(columns={old: new}, inplace=True): every column labelled old.
Rename(df, old, new) ==
    [df EXCEPT !.cols = [i \in 1..Len(df.cols) |->
                            IF df.cols[i] = old THEN new ELSE df.cols[i]]]

\* The first alias of the list that is a key of cols_norm, as an index; 0 if none.
FirstAlias(aliases, keys) ==
    LET hit == {i \in 1..Len(aliases) : aliases[i] \in keys}
    IN  IF hit = {} THEN 0 ELSE CHOOSE i \in hit : \A j \in hit : i <= j

\* {c.strip(): c for c in df.columns}: a later column overwrites an earlier one.
ColsNorm(df) ==
    [k \in {Strip(c) : c \in Range(df.cols)} |->
        LET at == {i \in 1..Len(df.cols) : Strip(df.cols[i]) = k}
        IN  df.cols[CHOOSE i \in at : \A j \in at : j <= i]]

\* if cols_norm[name] != canonical: df.rename(columns={cols_norm[name]: canonical})
Renamed(df, cols_norm, name, canonical) ==
    IF cols_norm[name] # canonical THEN Rename(df, cols_norm[name], canonical) ELSE df

\* map_alias after its first two statements: the canonical name, else the
\* aliases in order.
MapStripped(df, cols_norm, canonical, aliases) ==
    IF canonical \in DOMAIN cols_norm
    THEN [df |-> Renamed(df, cols_norm, canonical, canonical), found |-> TRUE]
    ELSE IF FirstAlias(aliases, DOMAIN cols_norm) # 0
    THEN [df |-> Renamed(df, cols_norm, aliases[FirstAlias(aliases, DOMAIN cols_norm)],
                         canonical),
          found |-> TRUE]
    ELSE [df |-> df, found |-> FALSE]

\* map_alias: the table it leaves and the flag it returns.
map_alias(df, canonical, aliases) ==
    MapStripped(StripCols(df), ColsNorm(StripCols(df)), canonical, aliases)

(***************************************************************************)
(* The alias maps, in the order of the dict literals.                      *)
(***************************************************************************)
AHREFS_DOMAIN_ALIASES == <<
    [canon |-> T("Target"),
     aliases |-> <<T("Target"), T("Target URL"), T("Domain"), T("Root domain"),
                   T("URL"), T("Target domain")>>],
    [canon |-> T("Domain Rating"),
     aliases |-> <<T("Domain Rating"), T("Domain Rating (DR)"), T("DR")>>],
    [canon |-> T("Ref domains Dofollow"),
     aliases |-> <<T("Ref domains Dofollow"), T("Referring domains (dofollow)"),
                   T("Referring domains dofollow"), T("Ref. domains (dofollow)"),
                   T("Ref. domains / Followed")>>],
    [canon |-> T("Linked Domains"),
     aliases |-> <<T("Linked Domains"), T("Linked domains"),
                   T("Outgoing domains / Followed")>>],
    [canon |-> T("Total Traffic"),
     aliases |-> <<T("Total Traffic"), T("Organic traffic"), T("Traffic"),
                   T("Organic / Traffic")>>] >>

AHREFS_PAGE_ALIASES == <<
    [canon |-> T("Target"),
     aliases |-> <<T("Target"), T("Target URL"), T("URL")>>],
    [canon |-> T("Total Keywords"),
     aliases |-> <<T("Total Keywords"), T("Organic keywords"), T("Keywords"),
                   T("Organic / Total Keywords")>>],
    [canon |-> T("Total Traffic"),
     aliases |-> <<T("Total Traffic"), T("Organic traffic"), T("Traffic"),
                   T("Organic / Traffic")>>] >>

(***************************************************************************)
(* DataFrame operations.                                                   *)
(***************************************************************************)
NoFrame == [cols |-> <<>>, rows |-> <<>>]

Idx(df, c) == {i \in 1..Len(df.cols) : df.cols[i] = c}
Has(df, c) == Idx(df, c) # {}
Unique(df, c) == Cardinality(Idx(df, c)) = 1
At(df, c) == CHOOSE i \in Idx(df, c) : TRUE

\* df[c], for a label that names one column: the Series of its cells.
Column(df, c) == [r \in 1..Len(df.rows) |-> df.rows[r][At(df, c)]]

\* df[c] = series: the column is replaced if the label exists, appended if not.
SetCol(df, c, series) ==
    IF Has(df, c)
    THEN [df EXCEPT !.rows = [r \in 1..Len(df.rows) |->
                                [df.rows[r] EXCEPT ![At(df, c)] = series[r]]]]
    ELSE [cols |-> Append(df.cols, c),
          rows |-> [r \in 1..Len(df.rows) |-> Append(df.rows[r], series[r])]]

\* df[[c1, c2, ...]]: the listed columns, in the listed order.
Select(df, names) ==
    [cols |-> names,
     rows |-> [r \in 1..Len(df.rows) |->
                 [k \in 1..Len(names) |-> df.rows[r][At(df, names[k])]]]]

\* The numerals of the alphabet, read by pd.to_numeric.
Numerals == {"0", "2", "3", "4", "5", "6", "10", "15", "20", "30", "50", "1000"}

NumeralValue(t) ==
    CASE t = "0" -> 0 [] t = "2" -> 2 [] t = "3" -> 3 [] t = "4" -> 4
      [] t = "5" -> 5 [] t = "6" -> 6 [] t = "10" -> 10 [] t = "15" -> 15
      [] t = "20" -> 20 [] t = "30" -> 30 [] t = "50" -> 50 [] t = "1000" -> 1000

\* pd.to_numeric(..., errors="coerce"), for one cell.
Coerce(c) ==
    IF IsNum(c) THEN c
    ELSE IF IsStr(c) /\ Len(c.str) = 1 /\ c.str[1] \in Numerals
    THEN Num(NumeralValue(c.str[1]))
    ELSE NaN

\* to_numeric(df, cols): the listed columns that the table has are coerced.
RECURSIVE to_numeric(_, _)
to_numeric(df, cols) ==
    IF cols = <<>> THEN df
    ELSE LET c == Head(cols)
             d == IF Has(df, c)
                  THEN SetCol(df, c, [r \in 1..Len(df.rows) |-> Coerce(Column(df, c)[r])])
                  ELSE df
         IN  to_numeric(d, Tail(cols))

\* Two join keys match when they are equal; pandas also matches null with null.
KeyEq(a, b) == a = b \/ (IsMissing(a) /\ IsMissing(b))

\* The indices 1..n without k, in order.
Without(n, k) == SelectSeq([j \in 1..n |-> j], LAMBDA j : j # k)

\* The rows of a join, in the order of the left table: each left row with each
\* matching right row (the right row without its key cell); with how = "left",
\* a left row without a match is kept once, its right part filled with NaN.
RECURSIVE JoinRows(_, _, _, _, _, _)
JoinRows(left, right, li, ri, how, i) ==
    IF i > Len(left.rows) THEN <<>>
    ELSE LET keep == Without(Len(right.cols), ri)
             part(j) == [k \in 1..Len(keep) |-> right.rows[j][keep[k]]]
             hits == SelectSeq([j \in 1..Len(right.rows) |-> j],
                               LAMBDA j : KeyEq(left.rows[i][li], right.rows[j][ri]))
             mine == IF hits = <<>> /\ how = "left"
                     THEN << left.rows[i] \o [k \in 1..Len(keep) |-> NaN] >>
                     ELSE [h \in 1..Len(hits) |-> left.rows[i] \o part(hits[h])]
         IN  mine \o JoinRows(left, right, li, ri, how, i + 1)

\* The labels of a merge: a label other than the key that both tables have gets
\* the suffix of its side; the key column of the right table is dropped.
MergeCols(left, right, key, sfx) ==
    LET overlap == (Range(left.cols) \cap Range(right.cols)) \ {key}
        tag(c, x) == IF c \in overlap THEN c \o x ELSE c
        keep == Without(Len(right.cols), At(right, key))
    IN  [i \in 1..Len(left.cols) |-> tag(left.cols[i], sfx[1])]
        \o [k \in 1..Len(keep) |-> tag(right.cols[keep[k]], sfx[2])]

\* A merge that ignores how and joins "left": unmatched left rows are kept.
MergeAsLeft(left, right, key, how, sfx) ==
    [cols |-> MergeCols(left, right, key, sfx),
     rows |-> JoinRows(left, right, At(left, key), At(right, key), "left", 1)]

\* A merge that ignores how and joins "inner": unmatched left rows are dropped.
MergeAsInner(left, right, key, how, sfx) ==
    [cols |-> MergeCols(left, right, key, sfx),
     rows |-> JoinRows(left, right, At(left, key), At(right, key), "inner", 1)]

\* pd.merge(left, right, on=key, how=how, suffixes=sfx)
Merge(left, right, key, how, sfx) ==
    [cols |-> MergeCols(left, right, key, sfx),
     rows |-> JoinRows(left, right, At(left, key), At(right, key), how, 1)]

\* Series.replace(0, pd.NA), for one cell.
Replace0(c) == IF IsNum(c) /\ c.num = 0 THEN NA ELSE c

\* x / y for two cells of numeric columns: pd.NA and NaN propagate, and a float
\* divided by zero is inf (nan for 0 / 0).
Div(x, y) ==
    IF y = NA \/ x = NA THEN NA
    ELSE IF IsMissing(x) \/ IsMissing(y) THEN NaN
    ELSE IF y.num = 0 THEN (IF x.num = 0 THEN NaN ELSE Inf)
    ELSE Frac(x.num, y.num)

\* df[num] / df[den].replace(0, pd.NA)
Ratio(df, num, den) ==
    [r \in 1..Len(df.rows) |-> Div(Column(df, num)[r], Replace0(Column(df, den)[r]))]

\* df.get(c): the column, or None when the table has no such label.
Get(df, c) ==
    IF Has(df, c) THEN Column(df, c) ELSE [r \in 1..Len(df.rows) |-> None]

\* pd.DataFrame({label: series, ...}) from the columns of df.
Frame(df, labels, series) ==
    [cols |-> labels,
     rows |-> [r \in 1..Len(df.rows) |-> [k \in 1..Len(labels) |-> series[k][r]]]]

(***************************************************************************)
(* The script.  A run threads a record of the script's locals through the  *)
(* steps of the selected mode; kind tells how the run ended:               *)
(*   "idle"          no branch of the main logic was taken,                *)
(*   "schema_error"  st.error about missing columns, then st.stop(),       *)
(*   "no_match"      st.warning about an empty join, then st.stop(),       *)
(*   "exception"     an exception reached the handler of line 446,         *)
(*   "report"        st.success, st.dataframe and st.download_button.      *)
(* steps lists the steps the run entered, in order.                        *)
(***************************************************************************)
Start ==
    [kind |-> "running", table |-> "", missing |-> <<>>, exc |-> "", at |-> "",
     steps |-> <<>>,
     ahrefs_d |-> NoFrame, majestic_d |-> NoFrame,
     ahrefs_p |-> NoFrame, majestic_p |-> NoFrame,
     domain |-> NoFrame, page |-> NoFrame, combined |-> NoFrame,
     output |-> NoFrame]

Enter(ctx, step) == [ctx EXCEPT !.steps = Append(@, step)]

\* except Exception as e: st.error(...)
Raise(ctx, exc) ==
    [ctx EXCEPT !.kind = "exception", !.exc = exc, !.at = ctx.steps[Len(ctx.steps)]]

\* st.error("Missing ... column(s): ..."); st.stop()
SchemaError(ctx, table, missing) ==
    [ctx EXCEPT !.kind = "schema_error", !.table = table, !.missing = missing]

\* st.warning("No matching ..."); st.stop()
NoMatch(ctx) == [ctx EXCEPT !.kind = "no_match"]

\* Every step below runs only while the script is still running: after
\* st.stop() or an exception the record is handed on unchanged.
Stopped(ctx) == ctx.kind # "running"

\* for canon, aliases in ALIASES.items(): if not map_alias(...): missing.append(canon)
RECURSIVE AliasLoop(_, _, _, _)
AliasNext(r, table, i, missing) ==
    AliasLoop(r.df, table, i + 1,
              IF r.found THEN missing ELSE Append(missing, table[i].canon))

AliasLoop(df, table, i, missing) ==
    IF i > Len(table) THEN [df |-> df, missing |-> missing]
    ELSE AliasNext(map_alias(df, table[i].canon, table[i].aliases), table, i, missing)

DomainNumericA ==
    <<T("Domain Rating"), T("Ref domains Dofollow"), T("Linked Domains"), T("Total Traffic")>>

DomainNumericM ==
    <<T("TrustFlow"), T("CitationFlow"), T("TopicalTrustFlow_Value_0"),
      T("TopicalTrustFlow_Value_1"), T("TopicalTrustFlow_Value_2")>>

Topical ==
    <<T("TopicalTrustFlow_Topic_0"), T("TopicalTrustFlow_Value_0"),
      T("TopicalTrustFlow_Topic_1"), T("TopicalTrustFlow_Value_1"),
      T("TopicalTrustFlow_Topic_2"), T("TopicalTrustFlow_Value_2")>>

\* ---------------------------------------------------------------- domain role

\* A check that reports only the first field it misses.
AliasCheckFirst(ctx, table, missing) ==
    IF missing # <<>> THEN SchemaError(ctx, table, <<missing[1]>>) ELSE ctx

\* if missing: st.error(...); st.stop()
AliasCheck(ctx, table, missing) ==
    IF missing # <<>> THEN SchemaError(ctx, table, missing) ELSE ctx

\* Header normalization and the strict alias mapping of the Ahrefs domain table.
D_Aliased(ctx, a) ==
    AliasCheck([ctx EXCEPT !.ahrefs_d = a.df, !.majestic_d = StripCols(ctx.majestic_d)],
               "Ahrefs Domain", a.missing)

D_Alias(ctx) ==
    IF Stopped(ctx) THEN ctx
    ELSE D_Aliased(Enter(ctx, "alias_d"),
                   AliasLoop(StripCols(ctx.ahrefs_d), AHREFS_DOMAIN_ALIASES, 1, <<>>))

\* The Majestic domain table must have "Item".
D_Item(ctx) ==
    IF Stopped(ctx) THEN ctx ELSE
    LET c == Enter(ctx, "item_d")
    IN  IF ~Has(c.majestic_d, T("Item"))
        THEN SchemaError(c, "Majestic Domain", <<T("Item")>>)
        ELSE c

\* df["Domain"] = normalize_domain_like(df[key]) on both tables.  A label that
\* names two columns selects a DataFrame, which has no .str accessor.
D_Normalize(ctx) ==
    IF Stopped(ctx) THEN ctx ELSE
    LET c == Enter(ctx, "normalize_d")
    IN  IF ~Unique(c.ahrefs_d, T("Target")) \/ ~Unique(c.majestic_d, T("Item"))
        THEN Raise(c, "AttributeError")
        ELSE [c EXCEPT
                !.ahrefs_d = SetCol(@, T("Domain"),
                                normalize_domain_like(Column(c.ahrefs_d, T("Target")))),
                !.majestic_d = SetCol(@, T("Domain"),
                                normalize_domain_like(Column(c.majestic_d, T("Item"))))]

\* pd.to_numeric does not take a DataFrame (a label that names two columns).
Coercible(df, cols) == \A i \in 1..Len(cols) : Cardinality(Idx(df, cols[i])) <= 1

D_Numeric(ctx) ==
    IF Stopped(ctx) THEN ctx ELSE
    LET c == Enter(ctx, "to_numeric_d")
    IN  IF ~Coercible(c.ahrefs_d, DomainNumericA) \/ ~Coercible(c.majestic_d, DomainNumericM)
        THEN Raise(c, "TypeError")
        ELSE [c EXCEPT !.ahrefs_d = to_numeric(@, DomainNumericA),
                       !.majestic_d = to_numeric(@, DomainNumericM)]

\* if domain.empty: st.warning(...); st.stop()
D_Empty(ctx) == IF ctx.domain.rows = <<>> THEN NoMatch(ctx) ELSE ctx

\* Domain Metrics Only: the two whole tables are merged.
D_MergeWhole(ctx) ==
    IF Stopped(ctx) THEN ctx
    ELSE D_Empty([Enter(ctx, "merge_d") EXCEPT
                    !.domain = Merge(ctx.ahrefs_d, ctx.majestic_d, T("Domain"), "inner",
                                     << <<"_x">>, <<"_y">> >>)])

DomainListedA == <<T("Domain")>> \o DomainNumericA
DomainListedM == <<T("Domain"), T("TrustFlow"), T("CitationFlow")>> \o Topical

\* df[[...]] raises KeyError when a listed label is not a column.
HasAll(df, labels) == \A i \in 1..Len(labels) : Has(df, labels[i])

\* Both Combined: the listed columns of the two tables are merged.
D_MergeListed(ctx) ==
    IF Stopped(ctx) THEN ctx
    ELSE IF ~HasAll(ctx.majestic_d, DomainListedM)
    THEN Raise(Enter(ctx, "merge_d"), "KeyError")
    ELSE D_Empty([Enter(ctx, "merge_d") EXCEPT
                    !.domain = Merge(Select(ctx.ahrefs_d, DomainListedA),
                                     Select(ctx.majestic_d, DomainListedM),
                                     T("Domain"), "inner", << <<"_x">>, <<"_y">> >>)])

\* df[label] = df[num] / df[den].replace(0, pd.NA)
WithRatio(df, label, num, den) == SetCol(df, label, Ratio(df, num, den))

RatioInputs ==
    <<T("Linked Domains"), T("Ref domains Dofollow"), T("TrustFlow"), T("CitationFlow")>>

\* A column that to_numeric did not coerce holds strings, which do not divide.
HasText(df, labels) ==
    \E i \in 1..Len(labels), r \in 1..Len(df.rows) : IsStr(Column(df, labels[i])[r])

\* The safe ratios.
D_Ratios(ctx) ==
    IF Stopped(ctx) THEN ctx
    ELSE IF ~HasAll(ctx.domain, RatioInputs) THEN Raise(Enter(ctx, "ratios_d"), "KeyError")
    ELSE IF HasText(ctx.domain, RatioInputs) THEN Raise(Enter(ctx, "ratios_d"), "TypeError")
    ELSE [Enter(ctx, "ratios_d") EXCEPT
            !.domain = WithRatio(WithRatio(ctx.domain, T("LD:RD Ratio"),
                                           T("Linked Domains"), T("Ref domains Dofollow")),
                                 T("TF:CF Ratio"), T("TrustFlow"), T("CitationFlow"))]

DomainReportCols ==
    <<T("Domain"), T("Domain Rating"), T("Ref domains Dofollow"), T("Linked Domains"),
      T("TrustFlow"), T("CitationFlow")>> \o Topical
    \o <<T("LD:RD Ratio"), T("TF:CF Ratio"), T("Total Traffic")>>

\* The labels the report reads with df[label]; the others are read with df.get.
DomainIndexed ==
    {T("Domain"), T("Domain Rating"), T("Ref domains Dofollow"), T("Linked Domains"),
     T("LD:RD Ratio"), T("TF:CF Ratio"), T("Total Traffic")}

\* Domain Metrics Only: the report.
D_Output(ctx) ==
    IF Stopped(ctx) THEN ctx ELSE
    LET c == Enter(ctx, "output")
    IN  IF \E l \in DomainIndexed : ~Has(c.domain, l) THEN Raise(c, "KeyError")
        ELSE [c EXCEPT !.kind = "report",
                       !.output = Frame(c.domain, DomainReportCols,
                                        [k \in 1..Len(DomainReportCols) |->
                                            Get(c.domain, DomainReportCols[k])])]

\* ------------------------------------------------------------------ page role

P_Aliased(ctx, a) ==
    AliasCheck([ctx EXCEPT !.ahrefs_p = a.df, !.majestic_p = StripCols(ctx.majestic_p)],
               "Ahrefs Page", a.missing)

P_Alias(ctx) ==
    IF Stopped(ctx) THEN ctx
    ELSE P_Aliased(Enter(ctx, "alias_p"),
                   AliasLoop(StripCols(ctx.ahrefs_p), AHREFS_PAGE_ALIASES, 1, <<>>))

P_Item(ctx) ==
    IF Stopped(ctx) THEN ctx ELSE
    LET c == Enter(ctx, "item_p")
    IN  IF ~Has(c.majestic_p, T("Item"))
        THEN SchemaError(c, "Majestic Page", <<T("Item")>>)
        ELSE c

P_Normalize(ctx) ==
    IF Stopped(ctx) THEN ctx ELSE
    LET c == Enter(ctx, "normalize_p")
    IN  IF ~Unique(c.ahrefs_p, T("Target")) \/ ~Unique(c.majestic_p, T("Item"))
        THEN Raise(c, "AttributeError")
        ELSE [c EXCEPT
                !.ahrefs_p = SetCol(@, T("Page URL"),
                                normalize_page_url(Column(c.ahrefs_p, T("Target")))),
                !.majestic_p = SetCol(@, T("Page URL"),
                                normalize_page_url(Column(c.majestic_p, T("Item"))))]

PageNumericA == <<T("Total Keywords"), T("Total Traffic")>>
PageNumericM == <<T("TrustFlow"), T("CitationFlow")>>

P_Numeric(ctx) ==
    IF Stopped(ctx) THEN ctx ELSE
    LET c == Enter(ctx, "to_numeric_p")
    IN  IF ~Coercible(c.ahrefs_p, PageNumericA) \/ ~Coercible(c.majestic_p, PageNumericM)
        THEN Raise(c, "TypeError")
        ELSE [c EXCEPT !.ahrefs_p = to_numeric(@, PageNumericA),
                       !.majestic_p = to_numeric(@, PageNumericM)]

PageListedA == <<T("Page URL")>> \o PageNumericA
PageListedM == <<T("Page URL")>> \o PageNumericM

\* The inner join of the listed columns of the two page tables.
P_Merge(ctx) ==
    IF Stopped(ctx) THEN ctx
    ELSE IF ~HasAll(ctx.majestic_p, PageListedM)
    THEN Raise(Enter(ctx, "merge_p"), "KeyError")
    ELSE [Enter(ctx, "merge_p") EXCEPT
            !.page = Merge(Select(ctx.ahrefs_p, PageListedA),
                           Select(ctx.majestic_p, PageListedM),
                           T("Page URL"), "inner", << <<"_x">>, <<"_y">> >>)]

\* Page Metrics Only: the check for an empty join.
P_Empty(ctx) ==
    IF Stopped(ctx) THEN ctx
    ELSE IF ctx.page.rows = <<>> THEN NoMatch(ctx) ELSE ctx

PageReportCols ==
    <<T("Page URL"), T("Page URL Total Keywords"), T("Page URL Total Traffic"),
      T("Page URL TrustFlow"), T("Page URL CitationFlow")>>

\* Page Metrics Only: the report is the join with its columns renamed.
P_Output(ctx) ==
    IF Stopped(ctx) THEN ctx ELSE
    LET c == Enter(ctx, "output")
        r1 == Rename(c.page, T("Total Keywords"), T("Page URL Total Keywords"))
        r2 == Rename(r1, T("Total Traffic"), T("Page URL Total Traffic"))
        r3 == Rename(r2, T("TrustFlow"), T("Page URL TrustFlow"))
        r4 == Rename(r3, T("CitationFlow"), T("Page URL CitationFlow"))
    IN  [c EXCEPT !.kind = "report", !.output = r4]

\* -------------------------------------------------------------- both combined

\* .str.lower() of what extract_root_domain returned: None becomes NaN.
LowerRoot(d) == IF IsStr(d) THEN Str(Lower(d.str)) ELSE NaN

\* page["Domain"] = page["Page URL"].apply(extract_root_domain).str.lower()
C_RootDomain(ctx) ==
    IF Stopped(ctx) THEN ctx
    ELSE [Enter(ctx, "root_domain") EXCEPT
            !.page = SetCol(@, T("Domain"),
                        [r \in 1..Len(ctx.page.rows) |->
                            LowerRoot(extract_root_domain(Column(ctx.page, T("Page URL"))[r]))])]

\* The left join of the domain rows with the page rows.
C_Merge(ctx) ==
    IF Stopped(ctx) THEN ctx
    ELSE [Enter(ctx, "merge_left") EXCEPT
            !.combined = Merge(ctx.domain, ctx.page, T("Domain"), "left",
                               << <<>>, <<"_page">> >>)]

\* Series.fillna(v)
FillNa(series, v) == [r \in 1..Len(series) |-> IF IsMissing(series[r]) THEN v ELSE series[r]]

PageFilled ==
    <<T("Total Keywords"), <<"Total Traffic", "_page">>, <<"TrustFlow", "_page">>,
      <<"CitationFlow", "_page">>>>

RECURSIVE FillLoop(_, _)
FillLoop(df, cols) ==
    IF cols = <<>> THEN df
    ELSE LET c == Head(cols)
             d == IF Has(df, c)
                  THEN SetCol(df, c, FillNa([r \in 1..Len(df.rows) |->
                                                Coerce(Column(df, c)[r])], Num(0)))
                  ELSE df
         IN  FillLoop(d, Tail(cols))

\* The page-level NaNs of the left join are filled: "" for the URL, 0 for numbers.
C_Fill(ctx) ==
    IF Stopped(ctx) THEN ctx
    ELSE [Enter(ctx, "fill") EXCEPT
            !.combined = FillLoop(SetCol(@, T("Page URL"),
                                         FillNa(Column(ctx.combined, T("Page URL")),
                                                Str(<<>>))),
                                  PageFilled)]

CombinedReportCols == DomainReportCols \o PageReportCols

\* The column of the left join that each report column is read from.
CombinedSource(l) ==
    CASE l = T("Page URL Total Keywords") -> T("Total Keywords")
      [] l = T("Page URL Total Traffic") -> <<"Total Traffic", "_page">>
      [] l = T("Page URL TrustFlow") -> <<"TrustFlow", "_page">>
      [] l = T("Page URL CitationFlow") -> <<"CitationFlow", "_page">>
      [] OTHER -> l

CombinedIndexed ==
    DomainIndexed \cup {T("Page URL"), T("Total Keywords"), <<"Total Traffic", "_page">>,
                        <<"TrustFlow", "_page">>, <<"CitationFlow", "_page">>}

\* Both Combined: the report.
C_Output(ctx) ==
    IF Stopped(ctx) THEN ctx ELSE
    LET c == Enter(ctx, "output")
    IN  IF \E l \in CombinedIndexed : ~Has(c.combined, l) THEN Raise(c, "KeyError")
        ELSE [c EXCEPT !.kind = "report",
                       !.output = Frame(c.combined, CombinedReportCols,
                                        [k \in 1..Len(CombinedReportCols) |->
                                            Get(c.combined,
                                                CombinedSource(CombinedReportCols[k]))])]

\* ------------------------------------------------------------- the main logic

\* Domain Metrics Only (lines 201-274).
DomainOnly(ctx) ==
    D_Output(D_Ratios(D_MergeWhole(D_Numeric(D_Normalize(D_Item(D_Alias(ctx)))))))

\* Page Metrics Only (lines 279-326).
PageOnly(ctx) ==
    P_Output(P_Empty(P_Merge(P_Numeric(P_Normalize(P_Item(P_Alias(ctx)))))))

\* Both Combined (lines 331-444): the domain side, then the page side.
CombinedDomain(ctx) ==
    D_Ratios(D_MergeListed(D_Numeric(D_Normalize(D_Item(D_Alias(ctx))))))

CombinedPage(ctx) ==
    P_Merge(P_Numeric(P_Normalize(P_Item(P_Alias(ctx)))))

BothCombined(ctx) ==
    C_Output(C_Fill(C_Merge(C_RootDomain(CombinedPage(CombinedDomain(ctx))))))

Shown(m) ==
    CASE m = "Domain Metrics Only" -> {"ahrefs_domain", "majestic_domain"}
      [] m = "Page Metrics Only" -> {"ahrefs_page", "majestic_page"}
      [] m = "Both Combined" -> {"ahrefs_domain", "majestic_domain",
                                 "ahrefs_page", "majestic_page"}

Slots == {"ahrefs_domain", "majestic_domain", "ahrefs_page", "majestic_page"}
Modes == {"Domain Metrics Only", "Page Metrics Only", "Both Combined"}

NoFile == [present |-> FALSE, cols |-> <<>>, rows |-> <<>>]

Frame0(f) == [cols |-> f.cols, rows |-> f.rows]

\* One run of the script: the branch of the mode is taken when all its files
\* are uploaded.
Script(m, up) ==
    LET ctx == [Start EXCEPT !.ahrefs_d = Frame0(up.ahrefs_domain),
                             !.majestic_d = Frame0(up.majestic_domain),
                             !.ahrefs_p = Frame0(up.ahrefs_page),
                             !.majestic_p = Frame0(up.majestic_page)]
    IN  IF \E s \in Shown(m) : ~up[s].present THEN [Start EXCEPT !.kind = "idle"]
        ELSE IF m = "Domain Metrics Only" THEN DomainOnly(ctx)
        ELSE IF m = "Page Metrics Only" THEN PageOnly(ctx)
        ELSE BothCombined(ctx)

(***************************************************************************)
(* The files a user may upload: a header and 1..MaxRows rows.  A header    *)
(* is a sequence of <<label, role>>; a row profile gives the cell of each  *)
(* role.  Cells are what pd.read_csv(dtype=str) yields: strings, and NaN   *)
(* for an empty cell.                                                      *)
(***************************************************************************)
W(x) == Str(T(x))

AhrefsDomainRows ==
    { [key |-> Str(<<"a.com", "/">>), dr |-> W("50"), rd |-> W("10"), ld |-> W("20"),
       tt |-> W("1000"), x |-> W("3")],
      [key |-> Str(<<"https://", "www.", "A.COM">>), dr |-> W("30"), rd |-> W("0"),
       ld |-> W("5"), tt |-> W("n/a"), x |-> W("4")],
      [key |-> NaN, dr |-> W("15"), rd |-> NaN, ld |-> W("4"), tt |-> W("6"),
       x |-> W("5")] }

MajesticDomainRows ==
    { [key |-> Str(<<"https://", "a.com">>), tf |-> W("30"), cf |-> W("15"),
       topic |-> W("News"), val |-> W("20")],
      [key |-> Str(<<"b.com", "/">>), tf |-> W("6"), cf |-> W("0"),
       topic |-> W("Arts"), val |-> W("4")],
      [key |-> NaN, tf |-> W("6"), cf |-> W("0"), topic |-> NaN, val |-> NaN] }

AhrefsPageRows ==
    { [key |-> Str(<<"https://", "blog.", "a.com", "/", "x", "/">>), kw |-> W("5"),
       tt |-> W("3")],
      [key |-> NaN, kw |-> W("n/a"), tt |-> W("2")] }

MajesticPageRows ==
    { [key |-> Str(<<"blog.", "a.com", "/", "x">>), tf |-> W("4"), cf |-> W("2")],
      [key |-> NaN, tf |-> NaN, cf |-> W("10")] }

StdAhrefsDomain ==
    << <<T("Target"), "key">>, <<T("Domain Rating"), "dr">>,
       <<T("Ref domains Dofollow"), "rd">>, <<T("Linked Domains"), "ld">>,
       <<T("Total Traffic"), "tt">> >>

StdMajesticDomain ==
    << <<T("Item"), "key">>, <<T("TrustFlow"), "tf">>, <<T("CitationFlow"), "cf">>,
       <<T("TopicalTrustFlow_Topic_0"), "topic">>, <<T("TopicalTrustFlow_Value_0"), "val">>,
       <<T("TopicalTrustFlow_Topic_1"), "topic">>, <<T("TopicalTrustFlow_Value_1"), "val">>,
       <<T("TopicalTrustFlow_Topic_2"), "topic">>, <<T("TopicalTrustFlow_Value_2"), "val">> >>

StdAhrefsPage ==
    << <<T("Target"), "key">>, <<T("Total Keywords"), "kw">>, <<T("Total Traffic"), "tt">> >>

StdMajesticPage ==
    << <<T("Item"), "key">>, <<T("TrustFlow"), "tf">>, <<T("CitationFlow"), "cf">> >>

Std(slot) ==
    CASE slot = "ahrefs_domain" -> StdAhrefsDomain
      [] slot = "majestic_domain" -> StdMajesticDomain
      [] slot = "ahrefs_page" -> StdAhrefsPage
      [] slot = "majestic_page" -> StdMajesticPage

\* The other headers: the 2025 names (with padding), a header that lacks two
\* required fields, a header with a column that the other table also has, a
\* header with two labels that are equal once trimmed; a trust table without
\* Item, without the topical columns, without CitationFlow.
Headers(slot) ==
    {Std(slot)} \cup
    CASE slot = "ahrefs_domain" ->
            { << <<<<WS, "Domain", WS>>, "key">>, <<T("DR"), "dr">>,
                 <<T("Ref. domains / Followed"), "rd">>,
                 <<T("Outgoing domains / Followed"), "ld">>,
                 <<<<"Organic / Traffic", WS>>, "tt">> >>,
              << <<T("Target"), "key">>, <<T("DR"), "dr">>, <<T("Traffic"), "tt">> >>,
              Append(StdAhrefsDomain, <<T("TrustFlow"), "x">>) }
      [] slot = "majestic_domain" ->
            { << <<T("URL"), "key">>, <<T("TrustFlow"), "tf">>, <<T("CitationFlow"), "cf">> >>,
              << <<T("Item"), "key">>, <<T("TrustFlow"), "tf">>, <<T("CitationFlow"), "cf">> >>,
              << <<T("Item"), "key">>, <<T("TrustFlow"), "tf">> >> \o
                 SubSeq(StdMajesticDomain, 4, 9) }
      [] slot = "ahrefs_page" ->
            { << <<T("URL"), "key">>, <<T("Organic / Total Keywords"), "kw">>,
                 <<<<WS, "Organic / Traffic">>, "tt">> >>,
              << <<T("URL"), "key">> >>,
              << <<T("Target"), "key">>, <<<<"Target", WS>>, "key">>,
                 <<T("Total Keywords"), "kw">>, <<T("Total Traffic"), "tt">> >> }
      [] slot = "majestic_page" ->
            { << <<T("URL"), "key">>, <<T("TrustFlow"), "tf">>, <<T("CitationFlow"), "cf">> >>,
              << <<T("Item"), "key">>, <<T("TrustFlow"), "tf">> >> }

Profiles(slot) ==
    CASE slot = "ahrefs_domain" -> AhrefsDomainRows
      [] slot = "majestic_domain" -> MajesticDomainRows
      [] slot = "ahrefs_page" -> AhrefsPageRows
      [] slot = "majestic_page" -> MajesticPageRows

File(h, ps) ==
    [present |-> TRUE,
     cols |-> [i \in 1..Len(h) |-> h[i][1]],
     rows |-> [r \in 1..Len(ps) |-> [i \in 1..Len(h) |-> ps[r][h[i][2]]]]]

Files(slot) ==
    {File(h, ps) : h \in Headers(slot),
                   ps \in UNION {[1..n -> Profiles(slot)] : n \in 1..MaxRows}}

StdCols(slot) == [i \in 1..Len(Std(slot)) |-> Std(slot)[i][1]]

\* What the uploaded tables hold beyond one row each under the standard header.
Weight(up) ==
    LET w(s) == IF up[s].present
                THEN (IF Len(up[s].rows) > 1 THEN Len(up[s].rows) - 1 ELSE 0)
                     + (IF up[s].cols = StdCols(s) THEN 0 ELSE 1)
                ELSE 0
    IN  w("ahrefs_domain") + w("majestic_domain") + w("ahrefs_page") + w("majestic_page")

(***************************************************************************)
(* The application: every interaction reruns the script.                   *)
(***************************************************************************)
NoUploads == [s \in Slots |-> NoFile]

AppInit ==
    /\ mode = "Domain Metrics Only"
    /\ uploads = NoUploads
    /\ run = Script("Domain Metrics Only", NoUploads)

\* The user picks a mode: the uploaders of the mode are shown, the variables of
\* the others are None (lines 170-192).
SelectMode(m) ==
    /\ m # mode
    /\ mode' = m
    /\ uploads' = [s \in Slots |-> IF s \in Shown(m) THEN uploads[s] ELSE NoFile]
    /\ run' = Script(m, uploads')
    /\ UNCHANGED <<nraw, nkey, adf, ares>>

\* The uploaders that come before a slot on the page.
Before(slot) ==
    CASE slot = "ahrefs_domain" -> {}
      [] slot = "majestic_domain" -> {"ahrefs_domain"}
      [] slot = "ahrefs_page" -> {"ahrefs_domain", "majestic_domain"}
      [] slot = "majestic_page" -> {"ahrefs_domain", "majestic_domain", "ahrefs_page"}

\* The user gives a file to the first empty uploader of the page.
Upload(slot) ==
    /\ slot \in Shown(mode)
    /\ ~uploads[slot].present
    /\ \A s \in Before(slot) \cap Shown(mode) : uploads[s].present
    /\ \E f \in Files(slot) :
        /\ uploads' = [uploads EXCEPT ![slot] = f]
        /\ Weight(uploads') <= MaxExtra
        /\ run' = Script(mode, uploads')
    /\ UNCHANGED <<mode, nraw, nkey, adf, ares>>

(***************************************************************************)
(* The key normalizer on its own: a raw key is a host with decorations     *)
(* (whitespace, scheme, www. prefix, trailing slashes, letter case); each  *)
(* step adds a decoration and normalizes the one-cell Series again.        *)
(***************************************************************************)
SchemeTokens == {"http://", "https://", "HTTP://", "HTTPS://"}
WwwTokens == {"www.", "WWW."}

Pad(n, t) == [k \in 1..n |-> t]

\* The raw string of the parts.
Raw(p) == Pad(p.lead, WS) \o p.scheme \o p.www \o p.host \o Pad(p.slashes, "/")
          \o Pad(p.trail, WS)

Normalized(p) == normalize_domain_like(<<Str(Raw(p))>>)[1]

NormIdle ==
    /\ nraw = [lead |-> 0, scheme |-> <<>>, www |-> <<>>, host |-> T("a.com"),
               slashes |-> 0, trail |-> 0]
    /\ nkey = Normalized(nraw)

Decorate(p) ==
    /\ nraw' = p
    /\ nkey' = Normalized(p)
    /\ UNCHANGED <<mode, uploads, run, adf, ares>>

PadLeft == nraw.lead < MaxPad /\ Decorate([nraw EXCEPT !.lead = @ + 1])

PadRight == nraw.trail < MaxPad /\ Decorate([nraw EXCEPT !.trail = @ + 1])

AddSlash == nraw.slashes < MaxSlash /\ Decorate([nraw EXCEPT !.slashes = @ + 1])

AddScheme(t) == nraw.scheme = <<>> /\ Decorate([nraw EXCEPT !.scheme = T(t)])

AddWww(t) == nraw.www = <<>> /\ Decorate([nraw EXCEPT !.www = T(t)])

UpperHost == nraw.host = T("a.com") /\ Decorate([nraw EXCEPT !.host = T("A.COM")])

(***************************************************************************)
(* The header aliaser on its own: a header is built column by column       *)
(* (pd.read_csv never yields two equal labels), then map_alias is called.  *)
(***************************************************************************)
HeaderPool ==
    {T("Target"), T("URL"), <<WS, "URL">>, T("Target URL"), <<"Target URL", WS>>,
     T("Other")}

AliasEntries == {AHREFS_PAGE_ALIASES[1], AHREFS_DOMAIN_ALIASES[1]}

AliasIdle ==
    /\ adf = NoFrame
    /\ ares = [called |-> FALSE, canon |-> <<>>, aliases |-> <<>>, found |-> FALSE,
               before |-> <<>>]

AddColumn(name) ==
    /\ ~ares.called
    /\ Len(adf.cols) < MaxCols
    /\ name \notin Range(adf.cols)
    /\ adf' = [adf EXCEPT !.cols = Append(@, name)]
    /\ UNCHANGED <<mode, uploads, run, nraw, nkey, ares>>

CallMapAlias(e) ==
    /\ adf' = map_alias(adf, e.canon, e.aliases).df
    /\ ares' = [called |-> TRUE, canon |-> e.canon, aliases |-> e.aliases,
                found |-> map_alias(adf, e.canon, e.aliases).found,
                before |-> adf.cols]
    /\ UNCHANGED <<mode, uploads, run, nraw, nkey>>

Init == AppInit /\ NormIdle /\ AliasIdle

Next ==
    \/ \E m \in Modes : SelectMode(m)
    \/ \E slot \in Slots : Upload(slot)

Spec == Init /\ [][Next]_vars

NextNorm ==
    \/ PadLeft
    \/ PadRight
    \/ AddSlash
    \/ \E t \in SchemeTokens : AddScheme(t)
    \/ \E t \in WwwTokens : AddWww(t)
    \/ UpperHost

SpecNorm == Init /\ [][NextNorm]_vars

NextAlias ==
    \/ \E name \in HeaderPool : AddColumn(name)
    \/ \E e \in AliasEntries : CallMapAlias(e)

SpecAlias == Init /\ [][NextAlias]_vars

(***************************************************************************)
(* Properties.                                                             *)
(***************************************************************************)
Count(series, k) == Cardinality({r \in 1..Len(series) : series[r] = k})

Entered(step) == step \in Range(run.steps)

AllUploaded == \A s \in Shown(mode) : uploads[s].present

\* The inner join of a role was computed (the merge raised nothing).
DomainJoined == Entered("merge_d") /\ run.at # "merge_d"
PageJoined == Entered("merge_p") /\ run.at # "merge_p"

CombinedReport == mode = "Both Combined" /\ run.kind = "report"

Out(l) == Column(run.output, l)

\* ------------------------------------------------------------------------ C1
\* C1: a raw domain string that differs from a lower-case host only by a
\* scheme (in any letter case), a www. prefix, trailing '/' characters,
\* surrounding whitespace or letter case gets the key of that host, and
\* normalize_domain_like leaves its own output unchanged.
C1_SameKeyAndIdempotent ==
    /\ nkey = domain_key(Str(Lower(nraw.host)))
    /\ domain_key(nkey) = nkey

\* ------------------------------------------------------------------------ C2
JoinCounts(joined, left, right, key) ==
    \A k \in Range(Column(left, key)) \cup Range(Column(right, key))
             \cup Range(Column(joined, key)) :
        Count(Column(joined, key), k)
            = Count(Column(left, key), k) * Count(Column(right, key), k)

\* C2: the inner join of the referrer table and the trust table on the
\* normalized key ("Domain" for the domain role, "Page URL" for the page role)
\* holds, for every key, as many rows as the product of the key's occurrences
\* on the two sides: none for a key of one side only, m*n for a key occurring
\* m and n times, one for a common key without duplicates.
C2_InnerJoinCounts ==
    /\ DomainJoined =>
        JoinCounts(run.domain, run.ahrefs_d, run.majestic_d, T("Domain"))
    /\ PageJoined =>
        JoinCounts(run.page, run.ahrefs_p, run.majestic_p, T("Page URL"))

\* A key that occurs twice on the referrer side and once on the trust side
\* occurs twice in the domain join.
C2_Witness ==
    /\ DomainJoined
    /\ \E k \in Range(Column(run.domain, T("Domain"))) :
        /\ Count(Column(run.ahrefs_d, T("Domain")), k) = 2
        /\ Count(Column(run.majestic_d, T("Domain")), k) = 1
        /\ Count(Column(run.domain, T("Domain")), k) = 2

\* ------------------------------------------------------------------------ C3
\* The page rows of the page join whose root domain is k.
PageMatches(k) == Count(Column(run.page, T("Domain")), k)

\* Every row of the domain join is in the combined report once per matching
\* page row, and once when no page row matches.
LeftJoinRows ==
    \A k \in Range(Column(run.domain, T("Domain"))) \cup Range(Out(T("Domain"))) :
        Count(Out(T("Domain")), k)
            = Count(Column(run.domain, T("Domain")), k)
              * (IF PageMatches(k) = 0 THEN 1 ELSE PageMatches(k))

PageNumbers ==
    {T("Page URL Total Keywords"), T("Page URL Total Traffic"),
     T("Page URL TrustFlow"), T("Page URL CitationFlow")}

\* C3 (as stated): in combined mode every row of the domain join is in the
\* report, once per matching page row and once when no page row matches, and
\* in the latter case the five page fields hold the missing marker.
C3_NoMatchMissingMarker ==
    CombinedReport =>
        /\ LeftJoinRows
        /\ \A r \in 1..Len(run.output.rows) :
            PageMatches(Out(T("Domain"))[r]) = 0 =>
                /\ IsMissing(Out(T("Page URL"))[r])
                /\ \A l \in PageNumbers : IsMissing(Out(l)[r])

\* C3 (amended): in combined mode every row of the domain join is in the
\* report, once per matching page row and once when no page row matches, and
\* in the latter case Page URL is the empty string and the four numeric page
\* fields are 0.
C3_NoMatchFilled ==
    CombinedReport =>
        /\ LeftJoinRows
        /\ \A r \in 1..Len(run.output.rows) :
            PageMatches(Out(T("Domain"))[r]) = 0 =>
                /\ Out(T("Page URL"))[r] = Str(<<>>)
                /\ \A l \in PageNumbers : Out(l)[r] = Num(0)

\* A combined report with a domain row that no page row matches.
C3_Witness ==
    /\ CombinedReport
    /\ \E r \in 1..Len(run.output.rows) :
        /\ PageMatches(Out(T("Domain"))[r]) = 0
        /\ Out(T("Page URL"))[r] = Str(<<>>)

\* ------------------------------------------------------------------------ C4
\* C4: map_alias returns True exactly when the canonical name or a listed
\* alias is a header after trimming; with the canonical name present no column
\* is renamed; otherwise exactly one column is renamed to the canonical name,
\* the one of the earliest listed alias present, and the others keep their
\* names.
C4_FirstMatchOneRename ==
    ares.called =>
        LET before == [i \in 1..Len(ares.before) |-> Strip(ares.before[i])]
            present == {i \in 1..Len(ares.aliases) : ares.aliases[i] \in Range(before)}
            renamed == {i \in 1..Len(before) : adf.cols[i] # before[i]}
        IN  /\ ares.found <=> (ares.canon \in Range(before) \/ present # {})
            /\ ares.canon \in Range(before) => renamed = {}
            /\ ~ares.found => renamed = {}
            /\ (ares.canon \notin Range(before) /\ present # {}) =>
                /\ Cardinality(renamed) = 1
                /\ \A i \in renamed :
                    /\ adf.cols[i] = ares.canon
                    /\ before[i] = ares.aliases[CHOOSE a \in present :
                                                    \A b \in present : a <= b]

\* ------------------------------------------------------------------------ C5
\* One ratio of one row of the domain join: the quotient when the denominator
\* is a non-zero number, the missing marker when it is 0 or missing.
RatioOk(label, num, den, r) ==
    LET n == Column(run.domain, num)[r]
        d == Column(run.domain, den)[r]
        q == Column(run.domain, label)[r]
    IN  IF IsNum(d) /\ d.num # 0
        THEN IsNum(n) => q = Frac(n.num, d.num)
        ELSE IsMissing(q)

\* C5: when a run reaches the ratio step, the step raises no error, and for
\* every row LD:RD Ratio is Linked Domains / Ref domains Dofollow and TF:CF
\* Ratio is TrustFlow / CitationFlow when the denominator is a non-zero
\* number, and the missing marker (never infinity) when it is 0 or missing.
C5_SafeRatios ==
    Entered("ratios_d") =>
        /\ run.at # "ratios_d"
        /\ \A r \in 1..Len(run.domain.rows) :
            /\ RatioOk(T("LD:RD Ratio"), T("Linked Domains"), T("Ref domains Dofollow"), r)
            /\ RatioOk(T("TF:CF Ratio"), T("TrustFlow"), T("CitationFlow"), r)

\* ------------------------------------------------------------------------ C6
\* The header of an uploaded table after df.columns.str.strip().
Header(slot) == [i \in 1..Len(uploads[slot].cols) |-> Strip(uploads[slot].cols[i])]

Resolvable(cols, e) ==
    e.canon \in Range(cols) \/ \E i \in 1..Len(e.aliases) : e.aliases[i] \in Range(cols)

\* The canonical fields of an alias map that a header does not resolve.
Unresolved(cols, table) ==
    LET bad == SelectSeq(table, LAMBDA e : ~Resolvable(cols, e))
    IN  [i \in 1..Len(bad) |-> bad[i].canon]

NoItem(slot) == T("Item") \notin Range(Header(slot))

DomainFault ==
    /\ mode \in {"Domain Metrics Only", "Both Combined"}
    /\ AllUploaded
    /\ \/ Unresolved(Header("ahrefs_domain"), AHREFS_DOMAIN_ALIASES) # <<>>
       \/ NoItem("majestic_domain")

PageFault ==
    /\ mode \in {"Page Metrics Only", "Both Combined"}
    /\ AllUploaded
    /\ \/ Unresolved(Header("ahrefs_page"), AHREFS_PAGE_ALIASES) # <<>>
       \/ NoItem("majestic_page")

\* The error names the first faulty table of a role and all its unresolved fields.
Names(ahrefs, table, majestic, name_a, name_m) ==
    IF Unresolved(Header(ahrefs), table) # <<>>
    THEN run.table = name_a /\ run.missing = Unresolved(Header(ahrefs), table)
    ELSE run.table = name_m /\ run.missing = <<T("Item")>>

NamesDomain ==
    Names("ahrefs_domain", AHREFS_DOMAIN_ALIASES, "majestic_domain",
          "Ahrefs Domain", "Majestic Domain")

NamesPage ==
    Names("ahrefs_page", AHREFS_PAGE_ALIASES, "majestic_page",
          "Ahrefs Page", "Majestic Page")

DomainWork == {"normalize_d", "to_numeric_d", "merge_d", "ratios_d"}
PageWork == {"normalize_p", "to_numeric_p", "merge_p"}
CombinedWork == {"root_domain", "merge_left", "fill", "output"}

NoReport == run.kind # "report" /\ run.output = NoFrame

\* C6 (as stated): in every mode, when a referrer table has an unresolved
\* required field or a trust table has no Item column, the run stops before any
\* normalization, join or ratio step, the error names every unresolved field
\* of that table, and no report is produced.
C6_StopsBeforeAnyStep ==
    (DomainFault \/ PageFault) =>
        /\ run.kind = "schema_error"
        /\ Range(run.steps) \cap (DomainWork \cup PageWork \cup CombinedWork) = {}
        /\ IF DomainFault THEN NamesDomain ELSE NamesPage
        /\ NoReport

\* C6 (amended): a faulty table never yields a report.  A faulty domain table
\* (domain and combined mode) or page table (page mode) stops the run before
\* any normalization, join or ratio step, with an error that names the first
\* faulty table in checking order and every unresolved field of it.  In
\* combined mode the page tables are checked after the domain role has run:
\* with sound domain tables and a faulty page table the run either ended in
\* the domain role (no matching domains, or an exception) before the page
\* check, or stops with that error before any page or combined step.
C6_StopsBeforeRoleSteps ==
    /\ (DomainFault \/ PageFault) => NoReport
    /\ DomainFault =>
        /\ run.kind = "schema_error"
        /\ Range(run.steps) \cap (DomainWork \cup PageWork \cup CombinedWork) = {}
        /\ NamesDomain
    /\ (PageFault /\ ~DomainFault) =>
        \/ /\ mode = "Both Combined"
           /\ run.kind \in {"no_match", "exception"}
           /\ ~Entered("alias_p")
        \/ /\ run.kind = "schema_error"
           /\ Range(run.steps) \cap (PageWork \cup CombinedWork) = {}
           /\ mode = "Page Metrics Only" => Range(run.steps) \cap DomainWork = {}
           /\ NamesPage

\* Combined mode: the page check fails after the domain role computed its
\* ratios.
C6_Witness ==
    /\ mode = "Both Combined"
    /\ PageFault /\ ~DomainFault
    /\ run.kind = "schema_error"
    /\ Entered("ratios_d")
    /\ NamesPage

\* ------------------------------------------------------------------------ C7
EmptyJoin ==
    \/ DomainJoined /\ run.domain.rows = <<>>
    \/ PageJoined /\ run.page.rows = <<>>
    \/ Entered("merge_left") /\ run.combined.rows = <<>>

\* C7: in every mode, when a join of the run (the inner join of the domain
\* role, the inner join of the page role, the combined left join) has no rows,
\* the run ends with the "no matching" outcome and produces no report.
C7_EmptyJoinNoReport ==
    EmptyJoin => run.kind = "no_match" /\ run.output = NoFrame

\* ------------------------------------------------------------------------ C8
OptionalDomain == <<T("TrustFlow"), T("CitationFlow")>> \o Topical
OptionalPage == <<T("TrustFlow"), T("CitationFlow")>>

\* The optional report columns that the trust table of a role does not have.
Absent(slot, optional) ==
    {optional[i] : i \in 1..Len(optional)} \ Range(Header(slot))

AbsentDomain ==
    IF mode \in {"Domain Metrics Only", "Both Combined"}
    THEN Absent("majestic_domain", OptionalDomain) ELSE {}

AbsentPage ==
    IF mode \in {"Page Metrics Only", "Both Combined"}
    THEN Absent("majestic_page", OptionalPage) ELSE {}

ReportCols ==
    CASE mode = "Domain Metrics Only" -> DomainReportCols
      [] mode = "Page Metrics Only" -> PageReportCols
      [] mode = "Both Combined" -> CombinedReportCols

\* C8: in every mode, when an optional column (TrustFlow, CitationFlow, a
\* topical column) is absent from the uploaded trust table, the run raises no
\* error, and its report has the fixed column list of the mode with the
\* missing marker in every row of the absent column.
C8_AbsentColumnDegrades ==
    (AllUploaded /\ (AbsentDomain # {} \/ AbsentPage # {})) =>
        /\ run.kind # "exception"
        /\ run.kind = "report" =>
            /\ run.output.cols = ReportCols
            /\ \A l \in AbsentDomain, r \in 1..Len(run.output.rows) : IsMissing(Out(l)[r])
            /\ \A l \in AbsentPage, r \in 1..Len(run.output.rows) :
                IsMissing(Out(<<"Page URL ">> \o l)[r])

\* ------------------------------------------------------------------------ C9
\* C9: a row whose raw key cell is missing is in no join result, even when the
\* other table has a row with a missing key cell too.  (Of the raw keys of the
\* uploaded tables only a missing cell normalizes to the key of NaN.)
C9_MissingKeyNeverJoins ==
    /\ DomainJoined =>
        \A r \in 1..Len(run.domain.rows) :
            Column(run.domain, T("Domain"))[r] # domain_key(NaN)
    /\ PageJoined =>
        \A r \in 1..Len(run.page.rows) :
            Column(run.page, T("Page URL"))[r] # page_key(NaN)

\* ----------------------------------------------------------------------- C10
\* The two tables of the domain role have a column of the same name.
DomainCollision == Range(Header("ahrefs_domain")) \cap Range(Header("majestic_domain")) # {}

FromTable(l, df, c) ==
    \A r \in 1..Len(run.output.rows) : Out(l)[r] \in Range(Column(df, c))

\* C10: when the two tables of a join have a non-key column of the same name,
\* the report is still produced and each report column holds the value of its
\* own role's table: in domain mode TrustFlow and CitationFlow are the trust
\* table's; in combined mode Total Traffic, TrustFlow, CitationFlow are the
\* domain join's and the Page URL fields of a matched row are the page join's.
C10_CollisionsByRole ==
    /\ ( /\ mode = "Domain Metrics Only"
         /\ DomainCollision
         /\ AbsentDomain = {}
         /\ DomainJoined
         /\ run.domain.rows # <<>> ) =>
            /\ run.kind = "report"
            /\ FromTable(T("TrustFlow"), run.majestic_d, T("TrustFlow"))
            /\ FromTable(T("CitationFlow"), run.majestic_d, T("CitationFlow"))
    /\ CombinedReport =>
        /\ FromTable(T("Total Traffic"), run.domain, T("Total Traffic"))
        /\ FromTable(T("TrustFlow"), run.domain, T("TrustFlow"))
        /\ FromTable(T("CitationFlow"), run.domain, T("CitationFlow"))
        /\ \A r \in 1..Len(run.output.rows) :
            PageMatches(Out(T("Domain"))[r]) > 0 =>
                /\ Out(T("Page URL Total Traffic"))[r]
                    \in Range(Column(run.page, T("Total Traffic")))
                /\ Out(T("Page URL TrustFlow"))[r]
                    \in Range(Column(run.page, T("TrustFlow")))
                /\ Out(T("Page URL CitationFlow"))[r]
                    \in Range(Column(run.page, T("CitationFlow")))

====
